---- MODULE Spec2Model ----
(***************************************************************************)
(* createApp of packages/sonik/src/server/server.ts: the installation of   *)
(* the file-system routes onto a Hono router, followed by the handling of  *)
(* requests by the handlers createApp registered (toWebResponse).          *)
(*                                                                         *)
(* Strings that the code splits on '/' are modelled as the sequence the    *)
(* split yields: '/app/routes/a' is <<"", "app", "routes", "a">> and ''    *)
(* is <<"">>.  The empty sequence stands for undefined.                    *)
(***************************************************************************)
EXTENDS Integers, Sequences, FiniteSets, TLC

VARIABLES
    ROUTES,       \* options.ROUTES: the route files, in Object.entries order
    LAYOUTS,      \* options.LAYOUTS: the set of layout file paths
    PRESERVED,    \* options.PRESERVED: the _404 / _error files
    layoutList,   \* listByDirectory(LAYOUTS): directory -> array of layout paths
    pc,           \* "dir", "file": inside createApp; "serving"; "crashed"
    dirIdx,       \* position of the outer loop over routesMap
    fileIdx,      \* position of the inner loop over the directory's files
    layouts,      \* the closure variable `layouts` of the current directory
    subRoutes,    \* subApp.routes of the directory being installed
    subErr,       \* directory -> the errorHandler of that directory's subApp
    app,          \* the router returned by createApp
    nHeads,       \* number of Head objects constructed so far
    req           \* the request being handled

vars == <<ROUTES, LAYOUTS, PRESERVED, layoutList, pc, dirIdx, fileIdx, layouts,
          subRoutes, subErr, app, nHeads, req>>

config == <<ROUTES, LAYOUTS, PRESERVED>>

NOTFOUND_FILENAME == "_404.tsx"
ERROR_FILENAME == "_error.tsx"
LAYOUT_FILENAME == "_layout.tsx"

\* options.root ?? '/app/routes'
root == <<"", "app", "routes">>

Undefined == <<>>

(***************************************************************************)
(* The directories of the modelled tree.                                   *)
(***************************************************************************)
DirTop == <<"">>
DirApp == <<"", "app">>
DirA == root \o <<"a">>
DirAB == root \o <<"a", "b">>
DirC == root \o <<"c">>
AllDirs == {DirTop, DirApp, root, DirA, DirAB, DirC}

DirOf(p) == SubSeq(p, 1, Len(p) - 1)
FileOf(p) == p[Len(p)]
IsPrefix(s, t) == Len(s) <= Len(t) /\ SubSeq(t, 1, Len(s)) = s
Front(s) == SubSeq(s, 1, Len(s) - 1)

\* the status of a Response that a handler built itself
OwnStatus == 201

(***************************************************************************)
(* The export shapes a route file's default export can have at run time.   *)
(***************************************************************************)
NoDefault == "NoDefault"   \* no default export: route.default is undefined
Primitive == "Primitive"   \* export default 'text': a truthy primitive
Mounted == "Mounted"       \* a Hono instance: 'fetch' in routeDefault
Component == "Component"   \* typeof routeDefault === 'function'
GetMap == "GetMap"         \* export default { GET: handler }
OddMap == "OddMap"         \* export default { foo: handler }
AppMap == "AppMap"         \* export default { APP: (app, { render }) => ... }
Absent == "Absent"         \* the file does not exist

FileIndex == root \o <<"index.tsx">>
FileX == DirA \o <<"x.tsx">>
FileY == DirA \o <<"y.tsx">>
FileZ == DirAB \o <<"z.tsx">>
FileW == DirC \o <<"w.tsx">>

XShapes == {NoDefault, Primitive, Mounted, Component, GetMap, OddMap, AppMap}
PairShapes == {Mounted, Component, GetMap}
YShapes == {Component, Mounted}
ZShapes == {Absent, GetMap}

Entry(p, d) == [path |-> p, default |-> d]

\* the entries of the ROUTES record; the keys of a/b come before or after
\* those of a
Files(x, y, z, nestedFirst) ==
    SelectSeq(IF nestedFirst
              THEN <<Entry(FileIndex, Component), Entry(FileZ, z), Entry(FileX, x),
                     Entry(FileY, y), Entry(FileW, Component)>>
              ELSE <<Entry(FileIndex, Component), Entry(FileX, x), Entry(FileY, y),
                     Entry(FileZ, z), Entry(FileW, Component)>>,
              LAMBDA e : e.default # Absent)

\* directory a holds x.tsx of any shape, or x.tsx and y.tsx
RouteConfigs ==
    { Files(x, Absent, z, n) : x \in XShapes, z \in ZShapes, n \in BOOLEAN }
    \cup { Files(x, y, z, n) : x \in PairShapes, y \in YShapes, z \in ZShapes,
                               n \in BOOLEAN }

LayoutOf(d) == d \o <<LAYOUT_FILENAME>>

LayoutConfigs ==
    { {}, {LayoutOf(root)}, {LayoutOf(DirA), LayoutOf(DirAB)}, {LayoutOf(DirApp)} }

RootPreserved == {root \o <<NOTFOUND_FILENAME>>, root \o <<ERROR_FILENAME>>}

PreservedConfigs ==
    {{}} \cup { RootPreserved \cup a :
                  a \in SUBSET {DirA \o <<NOTFOUND_FILENAME>>, DirA \o <<ERROR_FILENAME>>} }

(***************************************************************************)
(* utils/file.ts: the directory indexers and the filename-to-path mapping. *)
(***************************************************************************)
\* the directories of a list of files, in order of first appearance
DirectoriesOf(files) ==
    LET F[i \in 0..Len(files)] ==
            IF i = 0 THEN <<>>
            ELSE IF \E j \in 1..Len(F[i-1]) : F[i-1][j] = DirOf(files[i].path)
                 THEN F[i-1]
                 ELSE Append(F[i-1], DirOf(files[i].path))
    IN F[Len(files)]

FilesIn(files, dir) ==
    LET sel == SelectSeq(files, LAMBDA f : DirOf(f.path) = dir)
    IN [i \in 1..Len(sel) |-> [filename |-> FileOf(sel[i].path), default |-> sel[i].default]]

groupByDirectory(files) ==
    LET dirs == DirectoriesOf(files)
    IN [i \in 1..Len(dirs) |-> [dir |-> dirs[i], content |-> FilesIn(files, dirs[i])]]

Perms(S) ==
    { s \in [1..Cardinality(S) -> S] : \A i, j \in 1..Cardinality(S) : i # j => s[i] # s[j] }

\* the layout paths that apply to directory d: its own and those of its
\* ancestors inside the route tree
Applicable(files, d) ==
    { p \in files : IsPrefix(DirOf(p), d) /\ (DirOf(p) = d \/ IsPrefix(root, DirOf(p))) }

\* the values listByDirectory can return: each directory that holds a layout
\* maps to a list of the applicable layout paths
listByDirectory(files) ==
    { ll \in [AllDirs -> UNION { Perms(T) : T \in SUBSET files }] :
        \A d \in AllDirs :
            IF LayoutOf(d) \in files
            THEN ll[d] \in Perms(Applicable(files, d))
            ELSE ll[d] = Undefined }

\* 'x.tsx' -> '/x', 'index.tsx' -> '/'
filePathToPath(filename) ==
    CASE filename = "index.tsx" -> <<>>
      [] filename = "x.tsx" -> <<"x">>
      [] filename = "y.tsx" -> <<"y">>
      [] filename = "z.tsx" -> <<"z">>
      [] filename = "w.tsx" -> <<"w">>

routesMap == groupByDirectory(ROUTES)

\* groupByDirectory(PRESERVED): directory -> the preserved file names in it
preservedMap == [d \in AllDirs |-> { FileOf(p) : p \in { q \in PRESERVED : DirOf(q) = d } }]

(***************************************************************************)
(* The handlers createApp registers, and the part of Hono they rely on.    *)
(* A handler is the closure registered on the router: the file whose       *)
(* iteration created it, and the head, layouts and status it passes to     *)
(* toWebResponse.                                                          *)
(***************************************************************************)
Handler(kind, file, head, lay, status) ==
    [kind |-> kind, file |-> file, head |-> head, layouts |-> lay, status |-> status]

\* Hono's built-in notFoundHandler and errorHandler
HonoNotFound == Handler("honoNotFound", Undefined, 0, Undefined, 404)
HonoError == Handler("honoError", Undefined, 0, Undefined, 500)

\* a registered route; onErrorOf names the sub-application whose errorHandler
\* wraps the handler (Hono's route() wraps when the sub-application has one)
RouteOf(method, path, wild, handler) ==
    [method |-> method, path |-> path, wild |-> wild, handler |-> handler,
     onErrorOf |-> Undefined]

\* dir.replace(new RegExp(`^${root}`), '')
rootPath(dir) == IF IsPrefix(root, dir) THEN SubSeq(dir, Len(root) + 1, Len(dir)) ELSE dir

\* app.route(rootPath, subApp): every route of subApp is added again under
\* the prefix, wrapped by subApp's errorHandler when it is not the default
appRoute(routes, dir, sub, errs) ==
    routes \o
    [i \in 1..Len(sub) |->
        [sub[i] EXCEPT !.path = rootPath(dir) \o @,
                       !.onErrorOf = IF errs[dir] = HonoError THEN @ ELSE dir]]

\* lines 123-131: the key of the entry `layouts` ends up referring to
RECURSIVE getLayoutPaths(_)
getLayoutPaths(paths) ==
    IF layoutList[paths] # Undefined
    THEN paths
    ELSE IF Len(paths) - 1 > 0
         THEN getLayoutPaths(Front(paths))
         ELSE Undefined

Idle == [stage |-> "idle", method |-> "GET", path |-> <<>>, handler |-> HonoNotFound,
         onErrorOf |-> Undefined, res |-> "none", head |-> 0,
         route |-> HonoNotFound, threw |-> FALSE,
         response |-> [status |-> 0, doctype |-> FALSE, wrappers |-> <<>>,
                       composed |-> FALSE, by |-> "none", file |-> Undefined]]

Init ==
    /\ ROUTES \in RouteConfigs
    /\ LAYOUTS \in LayoutConfigs
    /\ PRESERVED \in PreservedConfigs
    /\ layoutList \in listByDirectory(LAYOUTS)
    /\ pc = "dir"
    /\ dirIdx = 1
    /\ fileIdx = 1
    /\ layouts = Undefined
    /\ subRoutes = <<>>
    /\ subErr = [d \in AllDirs |-> HonoError]
    /\ app = [routes |-> <<>>, notFoundHandler |-> HonoNotFound, errorHandler |-> HonoError]
    /\ nHeads = 0
    /\ req = Idle

curDir == routesMap[dirIdx].dir
curFile == routesMap[dirIdx].content[fileIdx]

\* lines 118-136: the next directory, its subApp and its layouts
BeginDir ==
    /\ pc = "dir"
    /\ dirIdx <= Len(routesMap)
    /\ layouts' = IF layoutList[curDir] # Undefined THEN curDir
                  ELSE getLayoutPaths(curDir)
    /\ subRoutes' = <<>>
    /\ fileIdx' = 1
    /\ pc' = "file"
    /\ UNCHANGED <<config, layoutList, dirIdx, subErr, app, nHeads, req>>

\* the end of one iteration of the loop over the directory's files
NextFile ==
    IF fileIdx = Len(routesMap[dirIdx].content)
    THEN /\ pc' = "dir"
         /\ dirIdx' = dirIdx + 1
         /\ fileIdx' = fileIdx
    ELSE /\ pc' = "file"
         /\ dirIdx' = dirIdx
         /\ fileIdx' = fileIdx + 1

\* line 140: if (!routeDefault) continue
SkipFile ==
    /\ pc = "file"
    /\ curFile.default = NoDefault
    /\ NextFile
    /\ UNCHANGED <<config, layoutList, layouts, subRoutes, subErr, app, nHeads, req>>

\* line 147: 'fetch' in routeDefault throws a TypeError on a primitive
InstallThrows ==
    /\ pc = "file"
    /\ curFile.default = Primitive
    /\ pc' = "crashed"
    /\ UNCHANGED <<config, layoutList, dirIdx, fileIdx, layouts, subRoutes,
                   subErr, app, nHeads, req>>

\* the mounted application called like a component and piped through
\* toWebResponse with the directory's layouts
mountedRoutesComposed(path, file, head, lay) ==
    <<RouteOf("GET", path, FALSE, Handler("component", file, head, lay, 200))>>

\* line 148: subApp.route(path, routeDefault) adds the mounted application's
\* own routes (one GET route here) under path, with its own handler
mountedRoutes(path, file, head, lay) ==
    <<RouteOf("GET", path, FALSE, Handler("mounted", file, 0, Undefined, OwnStatus))>>

\* lines 147-151: the default export is a Hono instance
MountApp ==
    /\ pc = "file"
    /\ curFile.default = Mounted
    /\ LET path == filePathToPath(curFile.filename)
           sub == subRoutes \o mountedRoutes(path, curDir \o <<curFile.filename>>,
                                             nHeads + 1, layouts)
       IN /\ subRoutes' = sub
          /\ app' = [app EXCEPT !.routes = appRoute(@, curDir, sub, subErr)]
    /\ NextFile
    /\ UNCHANGED <<config, layoutList, layouts, subErr, nHeads, req>>

\* the routes lines 169-197 register for a default export
routeHandlers(shape, path, file, head, lay) ==
    CASE shape = Component ->
            <<RouteOf("GET", path, FALSE, Handler("component", file, head, lay, 200))>>
      [] shape = GetMap ->
            <<RouteOf("GET", path, FALSE, Handler("method", file, head, lay, 200))>>
      [] shape = OddMap ->
            <<RouteOf("FOO", path, FALSE, Handler("method", file, head, lay, 200))>>
      [] shape = AppMap ->
            <<RouteOf("GET", path, FALSE, Handler("app", file, head, lay, 200))>>

\* lines 199-214: the preserved files of the directory
preservedRoutes(dir, file, head, lay) ==
    IF dir # root /\ NOTFOUND_FILENAME \in preservedMap[dir]
    THEN <<RouteOf("GET", <<>>, TRUE, Handler("notFound", file, head, lay, 404))>>
    ELSE <<>>

\* the directory test of line 200 inverted: only the root installs
preservedErrorRootOnly(dir, file, head, lay, errs) ==
    IF dir = root /\ ERROR_FILENAME \in preservedMap[dir]
    THEN [errs EXCEPT ![dir] = Handler("error", file, head, lay, 500)]
    ELSE errs

\* lines 206-212: subApp.onError for the directory's _error.tsx
preservedError(dir, file, head, lay, errs) ==
    IF dir # root /\ ERROR_FILENAME \in preservedMap[dir]
    THEN [errs EXCEPT ![dir] = Handler("error", file, head, lay, 500)]
    ELSE errs

\* lines 153-216: a callable or method-map default export
InstallRoute ==
    /\ pc = "file"
    /\ curFile.default \in {Component, GetMap, OddMap, AppMap}
    /\ LET path == filePathToPath(curFile.filename)
           file == curDir \o <<curFile.filename>>
           head == nHeads + 1
           sub == subRoutes \o routeHandlers(curFile.default, path, file, head, layouts)
                            \o preservedRoutes(curDir, file, head, layouts)
           errs == preservedError(curDir, file, head, layouts, subErr)
       IN /\ nHeads' = head
          /\ subRoutes' = sub
          /\ subErr' = errs
          /\ app' = [app EXCEPT !.routes = appRoute(@, curDir, sub, errs)]
    /\ NextFile
    /\ UNCHANGED <<config, layoutList, layouts, req>>

\* lines 220-254: the root head and the root preserved files
Finish ==
    /\ pc = "dir"
    /\ dirIdx > Len(routesMap)
    /\ nHeads' = nHeads + 1
    /\ app' = [app EXCEPT
                 !.notFoundHandler =
                     IF NOTFOUND_FILENAME \in preservedMap[root]
                     THEN Handler("notFound", root \o <<NOTFOUND_FILENAME>>, nHeads + 1,
                                  Undefined, 404)
                     ELSE @,
                 !.errorHandler =
                     IF ERROR_FILENAME \in preservedMap[root]
                     THEN Handler("error", root \o <<ERROR_FILENAME>>, nHeads + 1,
                                  Undefined, 500)
                     ELSE @]
    /\ pc' = "serving"
    /\ UNCHANGED <<config, layoutList, dirIdx, fileIdx, layouts, subRoutes,
                   subErr, req>>

(***************************************************************************)
(* Request handling.                                                       *)
(***************************************************************************)
Methods == {"GET", "POST"}
Paths == {<<>>, <<"a", "x">>, <<"a", "y">>, <<"a", "b", "z">>, <<"a", "nope">>,
          <<"c", "w">>, <<"c", "nope">>}

\* what calling a handler can yield: a node, a promise of a node, a Response
\* the handler built itself, or an exception (a rejected promise)
Outcomes(h) ==
    CASE h.kind \in {"honoNotFound", "honoError"} -> {"response"}
      [] h.kind = "mounted" -> {"response", "throw"}
      [] h.kind \in {"notFound", "error"} -> {"node", "response"}
      [] OTHER -> {"node", "promise", "response", "throw"}

\* Hono: the route's method and path match the request
Match(r, m, p) ==
    /\ r.method = m \/ r.method = "ALL"
    /\ IF r.wild THEN IsPrefix(r.path, p) ELSE r.path = p

Matching(m, p) == { i \in 1..Len(app.routes) : Match(app.routes[i], m, p) }

\* Hono: the first registered handler that matches answers; none: notFound
Matched(m, p) ==
    IF Matching(m, p) = {}
    THEN [handler |-> app.notFoundHandler, onErrorOf |-> Undefined]
    ELSE LET i == CHOOSE k \in Matching(m, p) : \A j \in Matching(m, p) : k <= j
         IN [handler |-> app.routes[i].handler, onErrorOf |-> app.routes[i].onErrorOf]

\* a.split('/').length of a layout path
Segments(path) == Len(path)

\* Array.prototype.sort((a, b) => b.split('/').length - a.split('/').length):
\* stable, descending by segment count
RECURSIVE sortLayouts(_)
sortLayouts(list) ==
    IF list = <<>> THEN <<>>
    ELSE LET rest == sortLayouts(Front(list))
             x == list[Len(list)]
             before == SelectSeq(rest, LAMBDA y : Segments(y) >= Segments(x))
             after == SelectSeq(rest, LAMBDA y : Segments(y) < Segments(x))
         IN before \o <<x>> \o after

Reverse(s) == [i \in 1..Len(s) |-> s[Len(s) + 1 - i]]

\* lines 84-114.  wrappers lists the layouts around the content, outermost
\* first; the result also carries layoutList, which the sort updates in place
toWebResponse(res, status, h) ==
    LET by == [composed |-> TRUE, by |-> h.kind, file |-> h.file]
    IN IF res = "response"
       THEN [response |-> [status |-> OwnStatus, doctype |-> FALSE, wrappers |-> <<>>] @@ by,
             layoutList |-> layoutList]
       ELSE IF h.layouts # Undefined /\ Len(layoutList[h.layouts]) > 0
       THEN LET sorted == sortLayouts(layoutList[h.layouts])
                applied == SelectSeq(sorted, LAMBDA q : q \in LAYOUTS)
            IN [response |-> [status |-> status, doctype |-> TRUE,
                              wrappers |-> Reverse(applied)] @@ by,
                layoutList |-> [layoutList EXCEPT ![h.layouts] = sorted]]
       ELSE IF LayoutOf(root) \in LAYOUTS
       THEN [response |-> [status |-> status, doctype |-> TRUE,
                           wrappers |-> <<LayoutOf(root)>>] @@ by,
             layoutList |-> layoutList]
       ELSE [response |-> [status |-> status, doctype |-> FALSE, wrappers |-> <<>>] @@ by,
             layoutList |-> layoutList]

\* a request arrives: Hono picks the handler and calls it
Dispatch(m, p) ==
    /\ pc = "serving"
    /\ req.stage \in {"idle", "done"}
    /\ LET hit == Matched(m, p)
       IN \E out \in Outcomes(hit.handler) :
             req' = [stage |-> IF out = "throw" THEN "thrown" ELSE "handled",
                     method |-> m, path |-> p, handler |-> hit.handler,
                     onErrorOf |-> hit.onErrorOf, res |-> out,
                     head |-> hit.handler.head, route |-> hit.handler,
                     threw |-> out = "throw", response |-> Idle.response]
    /\ UNCHANGED <<config, layoutList, pc, dirIdx, fileIdx, layouts, subRoutes, subErr, app, nHeads>>

\* the handler threw: the sub-application's errorHandler when the route was
\* wrapped by one, else the errorHandler of the outermost router
CatchError(out) ==
    /\ req.stage = "thrown"
    /\ LET h == IF req.onErrorOf # Undefined THEN subErr[req.onErrorOf]
                ELSE app.errorHandler
       IN /\ out \in Outcomes(h) \ {"throw"}
          /\ req' = [req EXCEPT !.stage = "handled", !.handler = h, !.res = out,
                                !.head = h.head]
    /\ UNCHANGED <<config, layoutList, pc, dirIdx, fileIdx, layouts, subRoutes, subErr, app, nHeads>>

\* the Response of a handler that createApp did not build: a mounted
\* application's route, Hono's built-in notFoundHandler and errorHandler
ownResponse(h) ==
    [response |-> [status |-> h.status, doctype |-> FALSE, wrappers |-> <<>>,
                   composed |-> FALSE, by |-> h.kind, file |-> h.file],
     layoutList |-> layoutList]

\* the handler's Response is sent: the handlers createApp built return
\* toWebResponse(...)
Compose ==
    /\ req.stage = "handled"
    /\ LET r == IF req.handler.kind \in {"mounted", "honoNotFound", "honoError"}
                THEN ownResponse(req.handler)
                ELSE toWebResponse(req.res, req.handler.status, req.handler)
       IN /\ req' = [req EXCEPT !.stage = "done", !.response = r.response]
          /\ layoutList' = r.layoutList
    /\ UNCHANGED <<config, pc, dirIdx, fileIdx, layouts, subRoutes, subErr,
                   app, nHeads>>

Next ==
    \/ BeginDir
    \/ SkipFile
    \/ InstallThrows
    \/ MountApp
    \/ InstallRoute
    \/ Finish
    \/ \E m \in Methods, p \in Paths : Dispatch(m, p)
    \/ \E out \in {"node", "response"} : CatchError(out)
    \/ Compose

Spec == Init /\ [][Next]_vars

(***************************************************************************)
(* Properties.                                                             *)
(***************************************************************************)
Done == req.stage = "done"

\* the export shape of a route file, Absent when there is no such file
ShapeOf(file) ==
    IF \E i \in 1..Len(ROUTES) : ROUTES[i].path = file
    THEN ROUTES[CHOOSE i \in 1..Len(ROUTES) : ROUTES[i].path = file].default
    ELSE Absent

\* the URL path at which a route file is installed
UrlOf(file) == rootPath(DirOf(file)) \o filePathToPath(FileOf(file))

RouteFiles == { ROUTES[i].path : i \in 1..Len(ROUTES) }

\* the route files for which createApp registered a handler on the router
Registered == { app.routes[i].handler.file : i \in 1..Len(app.routes) }

\* the response was rendered from content, not a Response passed through
Rendered == req.res \in {"node", "promise"}

\* the response comes from the not-found handler of directory d
ByNotFoundOf(d) ==
    /\ req.response.by = "notFound"
    /\ DirOf(req.response.file) = d

\* the response comes from the error handler of directory d
ByErrorOf(d) ==
    /\ req.response.by = "error"
    /\ DirOf(req.response.file) = d

\* C1: with layouts in a and in a/b and a route file in a/b whose layout chain
\* lists both, a GET request to that route is answered with the doctype and
\* the route's result wrapped by a/b's layout inside a's layout.
C1_NestedLayouts ==
    (/\ Done
     /\ req.method = "GET"
     /\ req.path = UrlOf(FileZ)
     /\ ShapeOf(FileZ) = GetMap
     /\ LAYOUTS = {LayoutOf(DirA), LayoutOf(DirAB)}
     /\ ~req.threw
     /\ Rendered)
    => /\ req.response.by = "method"
       /\ req.response.file = FileZ
       /\ req.response.doctype
       /\ req.response.wrappers = <<LayoutOf(DirA), LayoutOf(DirAB)>>

Unmatched ==
    \A i \in 1..Len(app.routes) : app.routes[i].wild \/ app.routes[i].path # req.path

\* C3: with a/_404.tsx, every request under a that matches no registered route
\* gets a 404 from a's not-found handler; under the sibling c, which has no
\* _404.tsx, it gets a 404 from the root's not-found handler.
C3_NotFoundScope ==
    (Done /\ Unmatched /\ ~req.threw)
    => /\ (/\ IsPrefix(<<"a">>, req.path)
           /\ NOTFOUND_FILENAME \in preservedMap[DirA]
           /\ \E f \in Registered : DirOf(f) = DirA /\ ShapeOf(f) \in {Component, GetMap})
          => /\ ByNotFoundOf(DirA)
             /\ Rendered => req.response.status = 404
       /\ (/\ IsPrefix(<<"c">>, req.path)
           /\ NOTFOUND_FILENAME \in preservedMap[root])
          => /\ req.response.by = "notFound"
             /\ req.response.file = root \o <<NOTFOUND_FILENAME>>
             /\ Rendered => req.response.status = 404

\* C4: the Head passed to the handlers of a request is a different object from
\* the Head passed to the handlers of the request before it.
C4_FreshHead ==
    [][(/\ req.stage = "done"
        /\ req'.stage \in {"handled", "thrown"}
        /\ req.head # 0
        /\ req'.head # 0)
       => req'.head # req.head]_vars

\* C5: once createApp has returned, handling requests changes neither the
\* indices (the order of the layout lists included) nor the router.
C5_IndicesFrozen ==
    [][pc = "serving"
       => /\ layoutList' = layoutList
          /\ config' = config
          /\ app' = app
          /\ subErr' = subErr]_vars

\* C6: a route file exporting { GET } answers a GET at its path with status 200
\* through toWebResponse, and a POST at that path goes to not-found handling.
C6_GetOnly ==
    \A f \in {FileX, FileZ} :
        (Done /\ ShapeOf(f) = GetMap /\ req.path = UrlOf(f) /\ ~req.threw)
        => /\ req.method = "GET"
              => /\ req.response.by = "method"
                 /\ req.response.file = f
                 /\ req.response.composed
                 /\ Rendered => req.response.status = 200
           /\ req.method = "POST"
              => req.response.by \in {"notFound", "honoNotFound"}

\* C7: a response of a mounted application is its own: it does not go through
\* toWebResponse, has no layout around it and no doctype, whatever layouts and
\* files surround it.
C7_MountedVerbatim ==
    (Done /\ ShapeOf(req.route.file) = Mounted /\ ~req.threw)
    => /\ req.response.by = "mounted"
       /\ ~req.response.composed
       /\ ~req.response.doctype
       /\ req.response.wrappers = <<>>

\* a mounted application answered, in a directory that has a layout chain,
\* a second route file, a _404.tsx and an _error.tsx
C7_Witness ==
    /\ Done
    /\ req.response.by = "mounted"
    /\ DirOf(req.response.file) = DirA
    /\ LayoutOf(DirA) \in LAYOUTS
    /\ ShapeOf(FileX) # Absent /\ ShapeOf(FileY) # Absent
    /\ preservedMap[DirA] = {NOTFOUND_FILENAME, ERROR_FILENAME}

\* C8: a route file whose default export has none of the recognised shapes
\* makes createApp raise no error and contributes no handler.
C8_UnrecognisedSkipped ==
    /\ pc # "crashed"
    /\ \A f \in Registered :
          ShapeOf(f) \notin {NoDefault, Primitive, OddMap}

\* C9: a GET request at the path of an installed route is answered by that
\* route's handler, never by a directory's not-found catch-all.
C9_RouteBeforeCatchAll ==
    \A f \in RouteFiles :
        (/\ Done
         /\ req.method = "GET"
         /\ ShapeOf(f) \in {Component, GetMap, AppMap, Mounted}
         /\ req.path = UrlOf(f)
         /\ ~req.threw)
        => /\ req.response.file = f
           /\ req.response.by # "notFound"

\* C10: the nearest-layout lookup stops at the root: it selects no entry of a
\* directory above the root, and leaves the route without a layout chain when
\* no directory from d up to the root has an entry.
C10_LookupStopsAtRoot ==
    pc = "file"
    => /\ layouts # Undefined => IsPrefix(root, layouts)
       /\ (\A k \in AllDirs : (IsPrefix(root, k) /\ IsPrefix(k, curDir))
                               => layoutList[k] = Undefined)
          => layouts = Undefined

====
